---- MODULE Spec2Model ----
(***************************************************************************)
(* Model of the markitdown-api server (src/app.py): module start-up, the   *)
(* bearer-token gate verify_token, the extension denylist                  *)
(* is_forbidden_file, and the upload / stage / convert / clean-up          *)
(* lifecycle of the POST /process_file handler.                            *)
(*                                                                         *)
(* Python strings that the code inspects (the Authorization header, the    *)
(* secret, the filename) are sequences of one-character strings, so that   *)
(* startswith, split, rsplit and lower are computed as Python computes     *)
(* them.  Opaque payloads (upload bytes, converted text, exception         *)
(* messages) are TLA+ strings.                                             *)
(***************************************************************************)
EXTENDS Integers, Sequences, FiniteSets, TLC

VARIABLES
    environ,           \* os.environ's API_TOKEN entry (an Option of a string)
    phase,             \* "import" | "serving" | "crashed": module start-up
    API_TOKEN,         \* the module global API_TOKEN (an Option)
    fs,                \* the temporary directory: path -> [exists, data]
    pc,                \* per request: position in the request lifecycle
    authorization,     \* per request: the Authorization header
    filename,          \* per request: file.filename
    upload,            \* per request: the uploaded bytes
    temp_file,         \* per request: the NamedTemporaryFile object
    temp_file_path,    \* per request: the local temp_file_path (Option)
    markdown_content,  \* per request: the local markdown_content (Option)
    pending,           \* per request: exception in flight / return value held by finally
    outcome,           \* per request: what the client gets
    trace,             \* per request: the steps the handler has executed, in order
    delegate,          \* per request: what markitdown.convert read and returned
    probe              \* a pure function's argument and result (SpecAuth, SpecPolicy)

vars == <<environ, phase, API_TOKEN, fs, pc, authorization, filename, upload,
          temp_file, temp_file_path, markdown_content, pending, outcome,
          trace, delegate, probe>>

----------------------------------------------------------------------------
(* Bounds of the model *)

\* number of requests the server handles; with more than one they are in
\* flight together and their steps interleave
NumRequests == 1
\* number of distinct names the temporary directory can hold
NumPaths == 2
\* longest remainder after the scheme prefix of an enumerated header
MaxRest == 3
\* longest enumerated secret
MaxSecret == 2
\* longest enumerated filename over FileChars
MaxName == 4

Requests == 1..NumRequests
Paths == 1..NumPaths

----------------------------------------------------------------------------
(* Python values *)

None == [none |-> TRUE, val |-> <<>>]
Some(v) == [none |-> FALSE, val |-> v]

\* Python truthiness of an optional string: None and "" are falsy
Truthy(opt) == ~opt.none /\ opt.val # <<>>

\* all sequences over S of length at most n
SeqsUpTo(S, n) == UNION {[1..k -> S] : k \in 0..n}

\* str.startswith
startswith(s, prefix) ==
    /\ Len(s) >= Len(prefix)
    /\ SubSeq(s, 1, Len(prefix)) = prefix

\* c in s, for a one-character c
contains(s, c) == \E i \in 1..Len(s) : s[i] = c

\* str.split(sep) for a one-character separator: every occurrence splits,
\* empty pieces are kept
RECURSIVE split(_, _)
split(s, sep) ==
    IF ~contains(s, sep)
    THEN <<s>>
    ELSE LET i == CHOOSE k \in 1..Len(s) :
                      s[k] = sep /\ \A j \in 1..(k - 1) : s[j] # sep
         IN <<SubSeq(s, 1, i - 1)>> \o split(SubSeq(s, i + 1, Len(s)), sep)

\* str.rsplit(sep, maxsplit) for a one-character separator: at most maxsplit
\* splits, taken from the right
RECURSIVE rsplit(_, _, _)
rsplit(s, sep, maxsplit) ==
    IF maxsplit = 0 \/ ~contains(s, sep)
    THEN <<s>>
    ELSE LET i == CHOOSE k \in 1..Len(s) :
                      s[k] = sep /\ \A j \in (k + 1)..Len(s) : s[j] # sep
         IN rsplit(SubSeq(s, 1, i - 1), sep, maxsplit - 1)
                \o <<SubSeq(s, i + 1, Len(s))>>

UpperCase == <<"A","B","C","D","E","F","G","H","I","J","K","L","M",
               "N","O","P","Q","R","S","T","U","V","W","X","Y","Z">>
LowerCase == <<"a","b","c","d","e","f","g","h","i","j","k","l","m",
               "n","o","p","q","r","s","t","u","v","w","x","y","z">>

LowerChar(c) ==
    IF \E i \in 1..Len(UpperCase) : UpperCase[i] = c
    THEN LowerCase[CHOOSE i \in 1..Len(UpperCase) : UpperCase[i] = c]
    ELSE c

UpperChar(c) ==
    IF \E i \in 1..Len(LowerCase) : LowerCase[i] = c
    THEN UpperCase[CHOOSE i \in 1..Len(LowerCase) : LowerCase[i] = c]
    ELSE c

\* str.lower
lower(s) == [i \in 1..Len(s) |-> LowerChar(s[i])]

\* str.upper (used to enumerate inputs only)
upper(s) == [i \in 1..Len(s) |-> UpperChar(s[i])]

\* x in list
InList(x, list) == \E i \in 1..Len(list) : list[i] = x

----------------------------------------------------------------------------
(* Authorization gate: verify_token *)

Bearer == <<"B","e","a","r","e","r"," ">>

HTTPException(code, msg) == [raised |-> TRUE, status_code |-> code, detail |-> msg]
Accepted == [raised |-> FALSE, status_code |-> 0, detail |-> ""]

\* token != API_TOKEN, for the str token and the module global
TokenDiffers(token, global) == global.none \/ global.val # token

verify_token(header) ==
    IF ~startswith(header, Bearer)
    THEN HTTPException(401, "Invalid token format")
    ELSE LET token == split(header, " ")[2]
         IN IF TokenDiffers(token, API_TOKEN)
            THEN HTTPException(403, "Invalid API token")
            ELSE Accepted

----------------------------------------------------------------------------
(* Filename policy: is_forbidden_file *)

FORBIDDEN_EXTENSIONS == <<
    <<"e","x","e">>, <<"m","s","i">>, <<"b","a","t">>, <<"c","m","d">>, <<"d","m","g">>, <<"p","k","g">>, <<"a","p","p">>, <<"b","i","n">>, <<"s","h">>, <<"r","u","n">>, <<"d","l","l">>, <<"s","o">>, <<"d","y","l","i","b">>, <<"j","a","r">>, <<"a","p","k">>,
    <<"v","b","s">>, <<"p","s","1">>, <<"p","y","c">>, <<"p","y","o">>, <<"s","y","s">>, <<"d","r","v">>, <<"c","o","n","f","i","g">>, <<"i","n","i">>, <<"d","a","t">>, <<"d","b">>, <<"s","q","l","i","t","e">>, <<"m","d","b">>, <<"d","b","f">>, <<"m","y","d">>,
    <<"d","x","f">>, <<"d","w","g">>, <<"s","t","l">>, <<"o","b","j">>, <<"3","d","s">>, <<"b","l","e","n","d">>, <<"g","p","g">>, <<"a","s","c">>, <<"p","g","p">>, <<"v","d","i">>, <<"v","m","d","k">>, <<"o","v","a">>, <<"d","o","c","k","e","r">>,
    <<"c","o","n","t","a","i","n","e","r","d">>, <<"c","l","a","s","s">>, <<"o">>, <<"a">>, <<"l","i","b">>, <<"t","t","f">>, <<"o","t","f">>, <<"f","o","n">> >>

is_forbidden_file_case_sensitive(name) ==
    /\ contains(name, ".")
    /\ InList(rsplit(name, ".", 1)[2], FORBIDDEN_EXTENSIONS)

is_forbidden_file(name) ==
    /\ contains(name, ".")
    /\ InList(lower(rsplit(name, ".", 1)[2]), FORBIDDEN_EXTENSIONS)

----------------------------------------------------------------------------
(* Values of the request lifecycle *)

NoOutcome == [kind |-> "none", status |-> 0, key |-> "", value |-> ""]

\* JSONResponse(content={key: value}, status_code=status)
JSONResponse(key, value, status) ==
    [kind |-> "response", status |-> status, key |-> key, value |-> value]

\* an exception that leaves the handler
Escaped(type, msg) == [kind |-> "raised", status |-> 0, key |-> type, value |-> msg]

NoPending == [kind |-> "none", status |-> 0, key |-> "", value |-> ""]
\* an exception propagating inside the try block; str(e) is msg
Exception(msg) == [kind |-> "exception", status |-> 0, key |-> "", value |-> msg]
\* a return value held while the finally block runs
Returning(resp) == [resp EXCEPT !.kind = "return"]

NoFile == [exists |-> FALSE, data |-> "", owner |-> 0]
NoTempFile == [created |-> FALSE, name |-> 0, closed |-> FALSE]

\* a step of the handler, with the message of the failure it raised ("" if none)
Step(op, err) == [op |-> op, err |-> err]
Ok(op) == Step(op, "")

\* the character strings the lifecycle draws its inputs from
Str_s == <<"s">>
Str_t == <<"t">>
EnvValues == {None, Some(<<>>), Some(Str_s)}
RequestHeaders ==
    { Bearer \o Str_s,
      Bearer \o Str_t,
      Bearer \o Str_s \o <<" ">> \o Str_t,
      Bearer,
      Bearer \o <<" ">> \o Str_s,
      <<"T","o","k","e","n"," ">> \o Str_s }
RequestFilenames ==
    { <<"n","o","t","e","s">>,
      <<"n",".","t","x","t">>,
      <<"p",".","E","X","E">>,
      <<"a",".","j","a","r">> }
Uploads == {"Hello", "PK-corrupt"}
Texts == {"Hello", "# Title"}
ConversionErrors == {"File conversion failed"}

----------------------------------------------------------------------------
(* Module start-up: lines 19-22 *)

\* os.getenv("API_TOKEN")
os_getenv == environ

StartupAcceptsAnything(token) == TRUE

\* a start-up check that tests "is None" only
StartupAcceptsEmpty(token) == ~token.none

\* the negation of "if not API_TOKEN: raise RuntimeError"
StartupAccepts(token) == Truthy(token)

Startup ==
    /\ phase = "import"
    /\ API_TOKEN' = os_getenv
    /\ phase' = IF StartupAccepts(os_getenv) THEN "serving" ELSE "crashed"
    /\ UNCHANGED <<environ, fs, pc, authorization, filename, upload, temp_file,
                   temp_file_path, markdown_content, pending, outcome, trace,
                   delegate, probe>>

----------------------------------------------------------------------------
(* POST /process_file *)

Log(r, step) == trace' = [trace EXCEPT ![r] = Append(@, step)]

\* the request reaches the route: uvicorn serves only once the module is imported
Arrive(r) ==
    /\ phase = "serving"
    /\ pc[r] = "idle"
    /\ \E h \in RequestHeaders, f \in RequestFilenames, u \in Uploads :
          /\ authorization' = [authorization EXCEPT ![r] = h]
          /\ filename' = [filename EXCEPT ![r] = f]
          /\ upload' = [upload EXCEPT ![r] = u]
    /\ pc' = [pc EXCEPT ![r] = "gate"]
    /\ UNCHANGED <<environ, phase, API_TOKEN, fs, temp_file, temp_file_path,
                   markdown_content, pending, outcome, trace, delegate, probe>>

\* the gate evaluated inside the handler, after the filename check
GateAfterPolicy(r) ==
    /\ pc[r] = "gate"
    /\ Log(r, Ok("gate"))
    /\ LET res == verify_token(authorization[r])
       IN IF is_forbidden_file(filename[r])
          THEN /\ outcome' = [outcome EXCEPT ![r] =
                                 JSONResponse("error", "File type not allowed", 400)]
               /\ pc' = [pc EXCEPT ![r] = "done"]
          ELSE IF res.raised
               THEN /\ outcome' = [outcome EXCEPT ![r] =
                                      JSONResponse("detail", res.detail, res.status_code)]
                    /\ pc' = [pc EXCEPT ![r] = "done"]
               ELSE /\ pc' = [pc EXCEPT ![r] = "policy"]
                    /\ UNCHANGED outcome
    /\ UNCHANGED <<environ, phase, API_TOKEN, fs, authorization, filename, upload,
                   temp_file, temp_file_path, markdown_content, pending,
                   delegate, probe>>

\* Depends(verify_token), line 61: resolved before the handler body runs; an
\* HTTPException becomes the response {"detail": detail}
Gate(r) ==
    /\ pc[r] = "gate"
    /\ LET res == verify_token(authorization[r])
       IN /\ Log(r, Ok("gate"))
          /\ IF res.raised
             THEN /\ outcome' = [outcome EXCEPT ![r] =
                                    JSONResponse("detail", res.detail, res.status_code)]
                  /\ pc' = [pc EXCEPT ![r] = "done"]
             ELSE /\ pc' = [pc EXCEPT ![r] = "policy"]
                  /\ UNCHANGED outcome
    /\ UNCHANGED <<environ, phase, API_TOKEN, fs, authorization, filename, upload,
                   temp_file, temp_file_path, markdown_content, pending,
                   delegate, probe>>

\* the filename check left out: every upload goes on to staging
PolicyNotEnforced(r) ==
    /\ pc[r] = "policy"
    /\ Log(r, Ok("policy"))
    /\ pc' = [pc EXCEPT ![r] = "create"]
    /\ UNCHANGED <<environ, phase, API_TOKEN, fs, authorization, filename, upload,
                   temp_file, temp_file_path, markdown_content, pending, outcome,
                   delegate, probe>>

\* lines 63-64
Policy(r) ==
    /\ pc[r] = "policy"
    /\ Log(r, Ok("policy"))
    /\ IF is_forbidden_file(filename[r])
       THEN /\ outcome' = [outcome EXCEPT ![r] =
                              JSONResponse("error", "File type not allowed", 400)]
            /\ pc' = [pc EXCEPT ![r] = "done"]
       ELSE /\ pc' = [pc EXCEPT ![r] = "create"]
            /\ UNCHANGED outcome
    /\ UNCHANGED <<environ, phase, API_TOKEN, fs, authorization, filename, upload,
                   temp_file, temp_file_path, markdown_content, pending,
                   delegate, probe>>

\* an exception raised in the try block at step op
Raise(r, op, msg) ==
    /\ pending' = [pending EXCEPT ![r] = Exception(msg)]
    /\ Log(r, Step(op, msg))
    /\ pc' = [pc EXCEPT ![r] = "except"]

\* a temporary file opened under a chosen name without O_EXCL: an existing file
\* of that name is truncated and taken over
CreateWithoutExclusive(r) ==
    /\ pc[r] = "create"
    /\ \/ \E p \in Paths :
             /\ fs' = [fs EXCEPT ![p] = [exists |-> TRUE, data |-> "", owner |-> r]]
             /\ temp_file' = [temp_file EXCEPT ![r] =
                                 [created |-> TRUE, name |-> p, closed |-> FALSE]]
             /\ Log(r, Ok("create"))
             /\ pc' = [pc EXCEPT ![r] = "read"]
             /\ UNCHANGED pending
       \/ /\ Raise(r, "create", "No usable temporary file name found")
          /\ UNCHANGED <<fs, temp_file>>
    /\ UNCHANGED <<environ, phase, API_TOKEN, authorization, filename, upload,
                   temp_file_path, markdown_content, outcome, delegate, probe>>

\* line 67: tempfile.NamedTemporaryFile(delete=False) creates a file under a name
\* no existing file has (O_EXCL), or raises
Create(r) ==
    /\ pc[r] = "create"
    /\ \/ \E p \in Paths :
             /\ ~fs[p].exists
             /\ fs' = [fs EXCEPT ![p] = [exists |-> TRUE, data |-> "", owner |-> r]]
             /\ temp_file' = [temp_file EXCEPT ![r] =
                                 [created |-> TRUE, name |-> p, closed |-> FALSE]]
             /\ Log(r, Ok("create"))
             /\ pc' = [pc EXCEPT ![r] = "read"]
             /\ UNCHANGED pending
       \/ /\ Raise(r, "create", "No usable temporary file name found")
          /\ UNCHANGED <<fs, temp_file>>
    /\ UNCHANGED <<environ, phase, API_TOKEN, authorization, filename, upload,
                   temp_file_path, markdown_content, outcome, delegate, probe>>

\* leaving the with block on an exception: the file object is closed, the file stays
ExitWith(r) == temp_file' = [temp_file EXCEPT ![r].closed = TRUE]

\* line 68, the argument: await file.read()
Read(r) ==
    /\ pc[r] = "read"
    /\ \/ /\ Log(r, Ok("read"))
          /\ pc' = [pc EXCEPT ![r] = "write"]
          /\ UNCHANGED <<pending, temp_file>>
       \/ /\ Raise(r, "read", "I/O operation on closed file")
          /\ ExitWith(r)
    /\ UNCHANGED <<environ, phase, API_TOKEN, fs, authorization, filename, upload,
                   temp_file_path, markdown_content, outcome, delegate, probe>>

\* line 68, the call: temp_file.write(<the bytes read>)
Write(r) ==
    /\ pc[r] = "write"
    /\ \/ /\ fs' = [fs EXCEPT ![temp_file[r].name].data = upload[r]]
          /\ Log(r, Ok("write"))
          /\ pc' = [pc EXCEPT ![r] = "assign"]
          /\ UNCHANGED <<pending, temp_file>>
       \/ /\ Raise(r, "write", "No space left on device")
          /\ ExitWith(r)
          /\ UNCHANGED fs
    /\ UNCHANGED <<environ, phase, API_TOKEN, authorization, filename, upload,
                   temp_file_path, markdown_content, outcome, delegate, probe>>

\* the conversion called inside the with block, before the file is closed
AssignConvertInsideWith(r) ==
    /\ pc[r] = "assign"
    /\ temp_file_path' = [temp_file_path EXCEPT ![r] = Some(temp_file[r].name)]
    /\ Log(r, Ok("assign"))
    /\ pc' = [pc EXCEPT ![r] = "convert"]
    /\ UNCHANGED <<environ, phase, API_TOKEN, fs, authorization, filename, upload,
                   temp_file, markdown_content, pending, outcome, delegate, probe>>

\* lines 69-70
Assign(r) ==
    /\ pc[r] = "assign"
    /\ temp_file_path' = [temp_file_path EXCEPT ![r] = Some(temp_file[r].name)]
    /\ Log(r, Ok("assign"))
    /\ pc' = [pc EXCEPT ![r] = "close"]
    /\ UNCHANGED <<environ, phase, API_TOKEN, fs, authorization, filename, upload,
                   temp_file, markdown_content, pending, outcome, delegate, probe>>

\* the end of the with block: the file object is flushed and closed
Close(r) ==
    /\ pc[r] = "close"
    /\ ExitWith(r)
    /\ \/ /\ Log(r, Ok("close"))
          /\ pc' = [pc EXCEPT ![r] = "convert"]
          /\ UNCHANGED pending
       \/ Raise(r, "close", "Input/output error")
    /\ UNCHANGED <<environ, phase, API_TOKEN, fs, authorization, filename, upload,
                   temp_file_path, markdown_content, outcome, delegate, probe>>

\* markitdown.convert(filepath), line 50: the library opens the file and either
\* returns a result carrying text_content or raises
LibraryOutcomes(path) ==
    IF fs[path].exists
    THEN {[ok |-> TRUE, text_content |-> t, err |-> ""] : t \in Texts}
         \cup {[ok |-> FALSE, text_content |-> "", err |-> m] : m \in ConversionErrors}
    ELSE {[ok |-> FALSE, text_content |-> "", err |-> "No such file or directory"]}

convert_to_md_without_return(result) == "None"

\* lines 51-52: what convert_to_md returns from the library's result
convert_to_md(result) == result.text_content

\* lines 72-73
Convert(r) ==
    /\ pc[r] = "convert"
    /\ LET path == temp_file_path[r].val
       IN \E res \in LibraryOutcomes(path) :
             /\ delegate' = [delegate EXCEPT ![r] = Append(@,
                                [path |-> path, data |-> fs[path].data,
                                 owner |-> fs[path].owner, result |-> res])]
             /\ IF res.ok
                THEN /\ markdown_content' = [markdown_content EXCEPT ![r] =
                                                Some(convert_to_md(res))]
                     /\ Log(r, Ok("convert"))
                     /\ pc' = [pc EXCEPT ![r] = "finally"]
                     /\ UNCHANGED pending
                ELSE /\ Raise(r, "convert", res.err)
                     /\ UNCHANGED markdown_content
    /\ UNCHANGED <<environ, phase, API_TOKEN, fs, authorization, filename, upload,
                   temp_file, temp_file_path, outcome, probe>>

\* an except clause that starts the staging over instead of returning
ExceptBodyRetry(r) ==
    /\ pending' = [pending EXCEPT ![r] = NoPending]
    /\ pc' = [pc EXCEPT ![r] = "create"]

\* the body of the except clause
ExceptBody(r) ==
    /\ pending' = [pending EXCEPT ![r] =
                      Returning(JSONResponse("error", pending[r].value, 500))]
    /\ pc' = [pc EXCEPT ![r] = "finally"]

\* lines 75-77: except Exception as e: ... return JSONResponse(500); the return
\* value is held until the finally block has run
Except(r) ==
    /\ pc[r] = "except"
    /\ pending[r].kind = "exception"
    /\ ExceptBody(r)
    /\ Log(r, Ok("except"))
    /\ UNCHANGED <<environ, phase, API_TOKEN, fs, authorization, filename, upload,
                   temp_file, temp_file_path, markdown_content, outcome,
                   delegate, probe>>

\* the finally block is left: a held return value is returned, otherwise
\* control falls through to line 84
LeaveFinally(r) ==
    IF pending[r].kind = "return"
    THEN /\ outcome' = [outcome EXCEPT ![r] = [pending[r] EXCEPT !.kind = "response"]]
         /\ pending' = [pending EXCEPT ![r] = NoPending]
         /\ pc' = [pc EXCEPT ![r] = "done"]
    ELSE /\ pc' = [pc EXCEPT ![r] = "return"]
         /\ UNCHANGED <<outcome, pending>>

\* an exception raised inside the finally block replaces a held return value
\* and leaves the handler
EscapeFinally(r, op, type, msg) ==
    /\ outcome' = [outcome EXCEPT ![r] = Escaped(type, msg)]
    /\ pending' = [pending EXCEPT ![r] = NoPending]
    /\ Log(r, Step(op, msg))
    /\ pc' = [pc EXCEPT ![r] = "done"]

\* lines 79-80: finally: if os.path.exists(temp_file_path); reading the local
\* before line 69 has bound it raises UnboundLocalError
Finally(r) ==
    /\ pc[r] = "finally"
    /\ IF temp_file_path[r].none
       THEN EscapeFinally(r, "cleanup", "UnboundLocalError",
                "cannot access local variable 'temp_file_path' where it is not associated with a value")
       ELSE /\ Log(r, Ok("cleanup"))
            /\ IF fs[temp_file_path[r].val].exists
               THEN /\ pc' = [pc EXCEPT ![r] = "remove"]
                    /\ UNCHANGED <<outcome, pending>>
               ELSE LeaveFinally(r)
    /\ UNCHANGED <<environ, phase, API_TOKEN, fs, authorization, filename, upload,
                   temp_file, temp_file_path, markdown_content, delegate, probe>>

\* a removal that runs on the success path only
RemoveOnlyOnSuccess(r) ==
    /\ pc[r] = "remove"
    /\ IF pending[r].kind = "return"
       THEN /\ LeaveFinally(r)
            /\ UNCHANGED <<fs, trace>>
       ELSE /\ fs' = [fs EXCEPT ![temp_file_path[r].val] = NoFile]
            /\ Log(r, Ok("remove"))
            /\ LeaveFinally(r)
    /\ UNCHANGED <<environ, phase, API_TOKEN, authorization, filename, upload,
                   temp_file, temp_file_path, markdown_content, delegate, probe>>

\* lines 81-82: os.remove(temp_file_path)
Remove(r) ==
    /\ pc[r] = "remove"
    /\ LET path == temp_file_path[r].val
       IN IF fs[path].exists
          THEN /\ fs' = [fs EXCEPT ![path] = NoFile]
               /\ Log(r, Ok("remove"))
               /\ LeaveFinally(r)
          ELSE /\ EscapeFinally(r, "remove", "FileNotFoundError",
                      "No such file or directory")
               /\ UNCHANGED fs
    /\ UNCHANGED <<environ, phase, API_TOKEN, authorization, filename, upload,
                   temp_file, temp_file_path, markdown_content, delegate, probe>>

\* line 84
Return(r) ==
    /\ pc[r] = "return"
    /\ outcome' = [outcome EXCEPT ![r] =
                      JSONResponse("markdown", markdown_content[r].val, 200)]
    /\ Log(r, Ok("respond"))
    /\ pc' = [pc EXCEPT ![r] = "done"]
    /\ UNCHANGED <<environ, phase, API_TOKEN, fs, authorization, filename, upload,
                   temp_file, temp_file_path, markdown_content, pending,
                   delegate, probe>>

----------------------------------------------------------------------------
(* The server *)

NoProbe == [fn |-> "none", arg |-> <<>>, done |-> FALSE]

IdleRequests ==
    /\ fs = [p \in Paths |-> NoFile]
    /\ pc = [r \in Requests |-> "idle"]
    /\ authorization = [r \in Requests |-> <<>>]
    /\ filename = [r \in Requests |-> <<>>]
    /\ upload = [r \in Requests |-> ""]
    /\ temp_file = [r \in Requests |-> NoTempFile]
    /\ temp_file_path = [r \in Requests |-> None]
    /\ markdown_content = [r \in Requests |-> None]
    /\ pending = [r \in Requests |-> NoPending]
    /\ outcome = [r \in Requests |-> NoOutcome]
    /\ trace = [r \in Requests |-> <<>>]
    /\ delegate = [r \in Requests |-> <<>>]

Init ==
    /\ environ \in EnvValues
    /\ phase = "import"
    /\ API_TOKEN = None
    /\ IdleRequests
    /\ probe = NoProbe

Next ==
    \/ Startup
    \/ \E r \in Requests : Arrive(r)
    \/ \E r \in Requests : Gate(r)
    \/ \E r \in Requests : Policy(r)
    \/ \E r \in Requests : Create(r)
    \/ \E r \in Requests : Read(r)
    \/ \E r \in Requests : Write(r)
    \/ \E r \in Requests : Assign(r)
    \/ \E r \in Requests : Close(r)
    \/ \E r \in Requests : Convert(r)
    \/ \E r \in Requests : Except(r)
    \/ \E r \in Requests : Finally(r)
    \/ \E r \in Requests : Remove(r)
    \/ \E r \in Requests : Return(r)

Spec == Init /\ [][Next]_vars

----------------------------------------------------------------------------
(* verify_token on enumerated headers and secrets *)

AuthChars == {"s", "t", " "}

\* the secrets start-up lets through: not None, not ""
AuthSecrets == SeqsUpTo(AuthChars, MaxSecret) \ {<<>>}

Schemes ==
    { Bearer,
      <<"B","e","a","r","e","r">>,
      <<"b","e","a","r","e","r"," ">>,
      <<"T","o","k","e","n"," ">>,
      <<" ">> \o Bearer,
      <<>> }

AuthHeaders == {scheme \o rest : scheme \in Schemes, rest \in SeqsUpTo(AuthChars, MaxRest)}

InitAuth ==
    /\ \E secret \in AuthSecrets :
          /\ environ = Some(secret)
          /\ API_TOKEN = Some(secret)
    /\ phase = "serving"
    /\ IdleRequests
    /\ probe \in {[fn |-> "verify_token", arg |-> h, done |-> FALSE] : h \in AuthHeaders}

ApplyVerifyToken ==
    /\ probe.fn = "verify_token"
    /\ ~probe.done
    /\ probe' = [fn |-> "verify_token", arg |-> probe.arg, done |-> TRUE,
                 result |-> verify_token(probe.arg)]
    /\ UNCHANGED <<environ, phase, API_TOKEN, fs, pc, authorization, filename,
                   upload, temp_file, temp_file_path, markdown_content, pending,
                   outcome, trace, delegate>>

NextAuth == ApplyVerifyToken

SpecAuth == InitAuth /\ [][NextAuth]_vars

----------------------------------------------------------------------------
(* is_forbidden_file on enumerated filenames *)

FileChars == {".", "a", "A", "o", "S", "x"}

Range(list) == {list[i] : i \in 1..Len(list)}

\* the first character upper-cased
capitalize(s) == [i \in 1..Len(s) |-> IF i = 1 THEN UpperChar(s[i]) ELSE s[i]]

\* every listed extension in three letter cases, behind three stems and before
\* four tails
ExtensionNames ==
    { stem \o <<".">> \o ext \o tail :
        stem \in {<<>>, <<"n">>, <<"n",".","x">>},
        ext \in UNION {{e, upper(e), capitalize(e)} : e \in Range(FORBIDDEN_EXTENSIONS)},
        tail \in {<<>>, <<".">>, <<".","x">>, <<"x">>} }

PolicyFilenames == SeqsUpTo(FileChars, MaxName) \cup ExtensionNames

InitPolicy ==
    /\ environ = Some(Str_s)
    /\ API_TOKEN = Some(Str_s)
    /\ phase = "serving"
    /\ IdleRequests
    /\ probe \in {[fn |-> "is_forbidden_file", arg |-> f, done |-> FALSE] :
                    f \in PolicyFilenames}

ApplyIsForbiddenFile ==
    /\ probe.fn = "is_forbidden_file"
    /\ ~probe.done
    /\ probe' = [fn |-> "is_forbidden_file", arg |-> probe.arg, done |-> TRUE,
                 result |-> is_forbidden_file(probe.arg)]
    /\ UNCHANGED <<environ, phase, API_TOKEN, fs, pc, authorization, filename,
                   upload, temp_file, temp_file_path, markdown_content, pending,
                   outcome, trace, delegate>>

NextPolicy == ApplyIsForbiddenFile

SpecPolicy == InitPolicy /\ [][NextPolicy]_vars

----------------------------------------------------------------------------
(* Observations on a request's history *)

\* request r has executed step op without / with a failure
Did(r, op) == \E i \in 1..Len(trace[r]) : trace[r][i] = Ok(op)
Failed(r, op) == \E i \in 1..Len(trace[r]) : trace[r][i].op = op /\ trace[r][i].err # ""
Attempted(r, op) == \E i \in 1..Len(trace[r]) : trace[r][i].op = op
Times(r, op) == Cardinality({i \in 1..Len(trace[r]) : trace[r][i].op = op})

TrySteps == {"create", "read", "write", "assign", "close", "convert"}

\* a step of the try block raised
FailedInTry(r) == \E op \in TrySteps : Failed(r, op)

\* the message of the first failure of the request
OriginalFailure(r) ==
    LET i == CHOOSE k \in 1..Len(trace[r]) :
                 /\ trace[r][k].err # ""
                 /\ \A j \in 1..(k - 1) : trace[r][j].err = ""
    IN trace[r][i].err

\* a file created by request r is in the temporary directory
StagedFileExists(r) == \E p \in Paths : fs[p].exists /\ fs[p].owner = r

\* the conversion delegate was invoked for r and raised / returned
DelegateRaised(r) == Len(delegate[r]) > 0 /\ ~delegate[r][Len(delegate[r])].result.ok
DelegateReturned(r) == Len(delegate[r]) > 0 /\ delegate[r][Len(delegate[r])].result.ok

----------------------------------------------------------------------------
(* C1 *)

\* C1: once the handler of an authorized, admitted request has produced its
\* response or terminated, no staged file created by that request exists,
\* whichever step (temp-file creation, upload read, write, conversion) failed.
C1_NoStagedFileAfterRequest ==
    \A r \in Requests :
        (pc[r] = "done" /\ Attempted(r, "create")) => ~StagedFileExists(r)

----------------------------------------------------------------------------
(* C2 *)

\* C2: every failure raised in process_file after the policy admitted the upload
\* ends the request with HTTP 500 {"error": <message of that failure>}; no
\* exception leaves the handler.
C2_EveryFailureIsStructured500 ==
    \A r \in Requests :
        (pc[r] = "done" /\ FailedInTry(r))
            => outcome[r] = JSONResponse("error", OriginalFailure(r), 500)

----------------------------------------------------------------------------
(* C3 *)

\* the gate of section 4.1: the whole remainder after "Bearer " is the token
ReferenceGate(h, secret) ==
    IF ~startswith(h, Bearer)
    THEN HTTPException(401, "Invalid token format")
    ELSE IF SubSeq(h, Len(Bearer) + 1, Len(h)) = secret
         THEN Accepted
         ELSE HTTPException(403, "Invalid API token")

\* C3: for every header h and secret s, verify_token accepts iff h starts with
\* "Bearer " and the whole remainder equals s, raises 403 iff the prefix is there
\* and the remainder differs, and raises 401 iff the prefix is missing.
C3_VerifyTokenMatchesReference ==
    (probe.fn = "verify_token" /\ probe.done)
        => probe.result = ReferenceGate(probe.arg, API_TOKEN.val)

----------------------------------------------------------------------------
(* C4 *)

\* the denylist as section 4.2 enumerates it
SpecDenylist == {
    <<"e","x","e">>, <<"m","s","i">>, <<"b","a","t">>, <<"c","m","d">>, <<"d","m","g">>, <<"p","k","g">>,
    <<"a","p","p">>, <<"b","i","n">>, <<"s","h">>, <<"r","u","n">>, <<"d","l","l">>, <<"s","o">>,
    <<"d","y","l","i","b">>, <<"j","a","r">>, <<"a","p","k">>, <<"v","b","s">>, <<"p","s","1">>, <<"p","y","c">>,
    <<"p","y","o">>, <<"s","y","s">>, <<"d","r","v">>, <<"c","o","n","f","i","g">>, <<"i","n","i">>, <<"d","a","t">>,
    <<"d","b">>, <<"s","q","l","i","t","e">>, <<"m","d","b">>, <<"d","b","f">>, <<"m","y","d">>, <<"d","x","f">>,
    <<"d","w","g">>, <<"s","t","l">>, <<"o","b","j">>, <<"3","d","s">>, <<"b","l","e","n","d">>, <<"g","p","g">>,
    <<"a","s","c">>, <<"p","g","p">>, <<"v","d","i">>, <<"v","m","d","k">>, <<"o","v","a">>, <<"d","o","c","k","e","r">>,
    <<"c","o","n","t","a","i","n","e","r","d">>, <<"c","l","a","s","s">>, <<"o">>, <<"a">>, <<"l","i","b">>, <<"t","t","f">>,
    <<"o","t","f">>, <<"f","o","n">> }

\* f has a "." and the lower-cased text after its last "." is denylisted
ReferenceForbidden(f) ==
    \E i \in 1..Len(f) :
        /\ f[i] = "."
        /\ \A j \in (i + 1)..Len(f) : f[j] # "."
        /\ lower(SubSeq(f, i + 1, Len(f))) \in SpecDenylist

\* C4: is_forbidden_file(f) is true iff f contains a "." and the lower-cased
\* substring after the last "." is one of the 50 denylisted extensions; names
\* without "." are admitted, letter case is ignored, only the last extension counts.
C4_ForbiddenIffLastExtensionDenylisted ==
    /\ Len(FORBIDDEN_EXTENSIONS) = 50
    /\ Cardinality(SpecDenylist) = 50
    /\ Range(FORBIDDEN_EXTENSIONS) = SpecDenylist
    /\ (probe.fn = "is_forbidden_file" /\ probe.done)
          => /\ probe.result = ReferenceForbidden(probe.arg)
             /\ ~contains(probe.arg, ".") => ~probe.result

\* a denylisted extension in upper case behind an earlier ".x" segment is rejected
C4_Witness ==
    /\ probe.fn = "is_forbidden_file"
    /\ probe.done
    /\ probe.arg = <<"n",".","x",".","E","X","E">>
    /\ probe.result

----------------------------------------------------------------------------
(* C5 *)

\* the staging, the upload read and the delegate have not run for r
NothingStaged(r) ==
    /\ ~Attempted(r, "create")
    /\ ~Attempted(r, "read")
    /\ ~Attempted(r, "write")
    /\ ~Attempted(r, "convert")
    /\ ~temp_file[r].created
    /\ ~StagedFileExists(r)
    /\ delegate[r] = <<>>

\* C5: an authorized request whose filename the policy rejects is answered
\* 400 {"error": "File type not allowed"}; no staged file is ever created for it,
\* the handler never reads the upload body, the delegate is never invoked.
C5_RejectedFilenameStopsBeforeStaging ==
    \A r \in Requests :
        (pc[r] # "idle" /\ is_forbidden_file(filename[r]))
            => /\ NothingStaged(r)
               /\ Did(r, "policy")
                     => /\ pc[r] = "done"
                        /\ outcome[r] = JSONResponse("error", "File type not allowed", 400)

\* payload in upper-case .EXE with the right token: answered 400
C5_Witness ==
    \E r \in Requests :
        /\ pc[r] = "done"
        /\ authorization[r] = Bearer \o Str_s
        /\ filename[r] = <<"p",".","E","X","E">>
        /\ outcome[r].status = 400
        /\ trace[r] = <<Ok("gate"), Ok("policy")>>

----------------------------------------------------------------------------
(* C6 *)

\* C6: a request the gate rejects is answered 401 or 403 whatever its filename
\* and content (never 400), and neither the filename policy nor staging,
\* conversion or clean-up is executed for it.
C6_GateFirst ==
    \A r \in Requests :
        (pc[r] \notin {"idle", "gate"} /\ verify_token(authorization[r]).raised)
            => /\ pc[r] = "done"
               /\ trace[r] = <<Ok("gate")>>
               /\ NothingStaged(r)
               /\ outcome[r] =
                     IF startswith(authorization[r], Bearer)
                     THEN JSONResponse("detail", "Invalid API token", 403)
                     ELSE JSONResponse("detail", "Invalid token format", 401)

\* a denylisted filename behind a malformed header: 401, not 400
C6_Witness ==
    \E r \in Requests :
        /\ pc[r] = "done"
        /\ ~startswith(authorization[r], Bearer)
        /\ is_forbidden_file(filename[r])
        /\ outcome[r].status = 401

----------------------------------------------------------------------------
(* C7 *)

\* token accepted, filename admitted, every staging step and the conversion done
Succeeded(r) ==
    /\ Did(r, "gate") /\ Did(r, "policy")
    /\ ~verify_token(authorization[r]).raised
    /\ ~is_forbidden_file(filename[r])
    /\ Did(r, "create") /\ Did(r, "read") /\ Did(r, "write") /\ Did(r, "close")
    /\ DelegateReturned(r)

\* C7: a request with an accepted token and an admitted filename in which staging
\* and conversion succeed is answered 200 {"markdown": t}, t being the text the
\* delegate returned for it; no other request is answered 200.
C7_SuccessIs200WithDelegateText ==
    \A r \in Requests :
        /\ outcome[r].status = 200 => (pc[r] = "done" /\ Succeeded(r))
        /\ (pc[r] = "done" /\ Succeeded(r))
              => outcome[r] = JSONResponse("markdown",
                                  delegate[r][1].result.text_content, 200)

C7_Witness ==
    \E r \in Requests :
        /\ pc[r] = "done"
        /\ upload[r] = "Hello"
        /\ delegate[r] # <<>>
        /\ delegate[r][1].data = "Hello"
        /\ outcome[r] = JSONResponse("markdown", "Hello", 200)

----------------------------------------------------------------------------
(* C8 *)

\* C8: when the staged file was written and the delegate then raises, the
\* response is 500 {"error": <the delegate's message>} and the staged file is
\* gone when the response is returned.
C8_ConversionFailureIs500AndCleaned ==
    \A r \in Requests :
        (pc[r] = "done" /\ Did(r, "write") /\ DelegateRaised(r))
            => /\ outcome[r] = JSONResponse("error",
                                   delegate[r][Len(delegate[r])].result.err, 500)
               /\ ~StagedFileExists(r)

C8_Witness ==
    \E r \in Requests :
        /\ pc[r] = "done"
        /\ Did(r, "write")
        /\ Failed(r, "convert")
        /\ Did(r, "remove")
        /\ outcome[r] = JSONResponse("error", "File conversion failed", 500)

----------------------------------------------------------------------------
(* C9 *)

\* C9: a request creates at most one staged file and invokes the delegate at
\* most once; after a staging or conversion failure no step of the try block
\* runs again, and the request ends failed (a 500, or an exception out of the
\* handler), never with a 200.
C9_SingleAttempt ==
    \A r \in Requests :
        /\ Times(r, "create") <= 1
        /\ Times(r, "convert") <= 1
        /\ Len(delegate[r]) <= 1
        /\ Cardinality({p \in Paths : fs[p].exists /\ fs[p].owner = r}) <= 1
        /\ LET failures == {i \in 1..Len(trace[r]) :
                                trace[r][i].err # "" /\ trace[r][i].op \in TrySteps}
               attempts == {j \in 1..Len(trace[r]) : trace[r][j].op \in TrySteps}
           IN \A i \in failures, j \in attempts : j <= i
        /\ (pc[r] = "done" /\ FailedInTry(r))
              => \/ outcome[r].kind = "response" /\ outcome[r].status = 500
                 \/ outcome[r].kind = "raised"

\* a write that failed: one file created, no conversion, the request failed
C9_Witness ==
    \E r \in Requests :
        /\ pc[r] = "done"
        /\ Failed(r, "write")
        /\ Times(r, "create") = 1
        /\ Times(r, "convert") = 0
        /\ outcome[r].status # 200

----------------------------------------------------------------------------
(* C10 *)

\* a request is past the route's entry
Handling(r) == pc[r] # "idle"

\* C10: with the secret variable absent start-up fails and no route serves; in
\* every state in which a request is being handled a secret is configured, and
\* the secret never changes after start-up.
C10_SecretConfiguredAndFixed ==
    /\ [](/\ (environ.none /\ phase # "import") => phase = "crashed"
          /\ \A r \in Requests :
                Handling(r) => (phase = "serving" /\ ~API_TOKEN.none
                                   /\ API_TOKEN = environ))
    /\ [][phase # "import" => (API_TOKEN' = API_TOKEN /\ phase' = phase)]_vars

\* start-up has run without the variable: the process is down, nothing is handled
C10_Witness ==
    /\ environ.none
    /\ phase = "crashed"
    /\ API_TOKEN.none
    /\ \A r \in Requests : ~Handling(r)

----------------------------------------------------------------------------
(* Several requests in flight: every interleaving of their steps *)

\* the requests in flight together
ConcurrentRequests == 1..(NumRequests + 1)

\* the requests that reach staging: the right token, an admitted filename
AcceptedHeaders == {Bearer \o Str_s}
AdmittedFilenames == {<<"n",".","t","x","t">>}
\* each request uploads bytes of its own, so that whose bytes a file holds shows
UploadNames == <<"Hello", "PK-corrupt", "%PDF-1.7">>
UploadOf(r) == UploadNames[((r - 1) % Len(UploadNames)) + 1]

IdleConcurrent ==
    /\ fs = [p \in Paths |-> NoFile]
    /\ pc = [r \in ConcurrentRequests |-> "idle"]
    /\ authorization = [r \in ConcurrentRequests |-> <<>>]
    /\ filename = [r \in ConcurrentRequests |-> <<>>]
    /\ upload = [r \in ConcurrentRequests |-> ""]
    /\ temp_file = [r \in ConcurrentRequests |-> NoTempFile]
    /\ temp_file_path = [r \in ConcurrentRequests |-> None]
    /\ markdown_content = [r \in ConcurrentRequests |-> None]
    /\ pending = [r \in ConcurrentRequests |-> NoPending]
    /\ outcome = [r \in ConcurrentRequests |-> NoOutcome]
    /\ trace = [r \in ConcurrentRequests |-> <<>>]
    /\ delegate = [r \in ConcurrentRequests |-> <<>>]

InitConcurrent ==
    /\ environ = Some(Str_s)
    /\ phase = "import"
    /\ API_TOKEN = None
    /\ IdleConcurrent
    /\ probe = NoProbe

\* a request that will pass the gate and the policy reaches the route
ArriveAccepted(r) ==
    /\ phase = "serving"
    /\ pc[r] = "idle"
    /\ \E h \in AcceptedHeaders, f \in AdmittedFilenames :
          /\ authorization' = [authorization EXCEPT ![r] = h]
          /\ filename' = [filename EXCEPT ![r] = f]
          /\ upload' = [upload EXCEPT ![r] = UploadOf(r)]
    /\ pc' = [pc EXCEPT ![r] = "gate"]
    /\ UNCHANGED <<environ, phase, API_TOKEN, fs, temp_file, temp_file_path,
                   markdown_content, pending, outcome, trace, delegate, probe>>

NextConcurrent ==
    \/ Startup
    \/ \E r \in ConcurrentRequests : ArriveAccepted(r)
    \/ \E r \in ConcurrentRequests : Gate(r)
    \/ \E r \in ConcurrentRequests : Policy(r)
    \/ \E r \in ConcurrentRequests : Create(r)
    \/ \E r \in ConcurrentRequests : Read(r)
    \/ \E r \in ConcurrentRequests : Write(r)
    \/ \E r \in ConcurrentRequests : Assign(r)
    \/ \E r \in ConcurrentRequests : Close(r)
    \/ \E r \in ConcurrentRequests : Convert(r)
    \/ \E r \in ConcurrentRequests : Except(r)
    \/ \E r \in ConcurrentRequests : Finally(r)
    \/ \E r \in ConcurrentRequests : Remove(r)
    \/ \E r \in ConcurrentRequests : Return(r)

SpecConcurrent == InitConcurrent /\ [][NextConcurrent]_vars

----------------------------------------------------------------------------
(* C11 *)

\* request r has created its temporary file and has not removed it
HoldsFile(r) == temp_file[r].created /\ ~Did(r, "remove")

\* C11: for any interleaving of concurrent requests, two requests whose staged
\* files exist together never hold the same path; a request's clean-up removes
\* only the file that request created; the delegate of a request reads that
\* request's own uploaded bytes, never another request's, never a removed file.
C11_StagedFilesAreDisjoint ==
    /\ [](/\ \A r \in ConcurrentRequests :
                HoldsFile(r) =>
                    /\ fs[temp_file[r].name].exists
                    /\ fs[temp_file[r].name].owner = r
                    /\ fs[temp_file[r].name].data \in {"", upload[r]}
          /\ \A r1, r2 \in ConcurrentRequests :
                (r1 # r2 /\ HoldsFile(r1) /\ HoldsFile(r2))
                    => temp_file[r1].name # temp_file[r2].name
          /\ \A r \in ConcurrentRequests :
                \A i \in 1..Len(delegate[r]) :
                    /\ delegate[r][i].path = temp_file[r].name
                    /\ delegate[r][i].owner = r
                    /\ delegate[r][i].data = upload[r]
                    /\ delegate[r][i].result.err # "No such file or directory")
    /\ [][\A p \in Paths :
            (fs[p].exists /\ ~fs'[p].exists)
                => \E r \in ConcurrentRequests :
                      /\ pc[r] = "remove"
                      /\ pc'[r] # "remove"
                      /\ temp_file[r].name = p
                      /\ fs[p].owner = r]_vars

\* two requests hold staged files under different names at once, each file
\* with its own request's bytes, and one of them has been converted
C11_Witness ==
    \E r1, r2 \in ConcurrentRequests :
        /\ r1 # r2
        /\ HoldsFile(r1) /\ HoldsFile(r2)
        /\ temp_file[r1].name # temp_file[r2].name
        /\ fs[temp_file[r1].name].data = upload[r1]
        /\ fs[temp_file[r2].name].data = upload[r2]
        /\ upload[r1] # upload[r2]
        /\ Did(r1, "convert")

----------------------------------------------------------------------------
(* C12 *)

\* C12: the clean-up of process_file never fails: on every exit path of the try
\* block, also when the temporary file was never created or its path never
\* recorded, it checks existence, removes the file at most once and raises no
\* secondary error.
C12_CleanupNeverFails ==
    \A r \in Requests :
        /\ ~Failed(r, "cleanup")
        /\ ~Failed(r, "remove")
        /\ Times(r, "remove") <= 1
        /\ outcome[r].kind # "raised"

----------------------------------------------------------------------------
(* C13 *)

\* steps a and b both happened, every a before every b
Before(r, a, b) ==
    LET as == {i \in 1..Len(trace[r]) : trace[r][i].op = a}
        bs == {j \in 1..Len(trace[r]) : trace[r][j].op = b}
    IN /\ as # {}
       /\ bs # {}
       /\ \A i \in as, j \in bs : i < j

\* C13: the delegate is invoked only after the whole upload body is written to
\* the staged file and the file is closed; the response (200 or 500) leaves the
\* handler only after the conversion returned or raised and the clean-up ran:
\* write < close < convert < clean-up < respond whenever conversion is reached.
C13_StageCloseConvertCleanupRespond ==
    \A r \in Requests :
        /\ pc[r] = "convert"
              => /\ Did(r, "write") /\ Did(r, "close")
                 /\ temp_file[r].closed
                 /\ fs[temp_file_path[r].val].data = upload[r]
        /\ Attempted(r, "convert")
              => /\ Before(r, "write", "close")
                 /\ Before(r, "close", "convert")
                 /\ Len(delegate[r]) = 1
                 /\ delegate[r][1].data = upload[r]
        /\ (Attempted(r, "convert") /\ Attempted(r, "cleanup"))
              => Before(r, "convert", "cleanup")
        /\ (Attempted(r, "convert") /\ outcome[r] # NoOutcome)
              => /\ pc[r] = "done"
                 /\ outcome[r].kind = "response"
                 /\ outcome[r].status \in {200, 500}
                 /\ Before(r, "convert", "cleanup")
                 /\ Before(r, "cleanup", "remove")
                 /\ ~StagedFileExists(r)
                 /\ Did(r, "respond") => Before(r, "remove", "respond")

\* a successful request: its steps in the order the claim gives
C13_Witness ==
    \E r \in Requests :
        /\ pc[r] = "done"
        /\ outcome[r].status = 200
        /\ trace[r] = <<Ok("gate"), Ok("policy"), Ok("create"), Ok("read"),
                        Ok("write"), Ok("assign"), Ok("close"), Ok("convert"),
                        Ok("cleanup"), Ok("remove"), Ok("respond")>>

----------------------------------------------------------------------------
(* Several requests on one event loop *)

\* process_file is a coroutine: its steps run on the event loop thread, one
\* coroutine at a time, and another coroutine runs only while this one is parked
\* at an await

SuspensionPointsWithAwaitedConvert == {"read", "convert"}

\* the positions at which the handler is parked: line 68, await file.read()
SuspensionPoints == {"read"}

\* positions off the loop: not arrived, verify_token running in the thread pool
\* (a plain def dependency), handler not started yet, finished
OffLoop == {"idle", "gate", "policy", "done"}

\* no other request's handler is in the middle of a run on the loop
EventLoopFree(r) ==
    \A r2 \in ConcurrentRequests \ {r} : pc[r2] \in OffLoop \cup SuspensionPoints

NextEventLoop ==
    \/ Startup
    \/ \E r \in ConcurrentRequests : ArriveAccepted(r)
    \/ \E r \in ConcurrentRequests : Gate(r)
    \/ \E r \in ConcurrentRequests : EventLoopFree(r) /\ Policy(r)
    \/ \E r \in ConcurrentRequests : EventLoopFree(r) /\ Create(r)
    \/ \E r \in ConcurrentRequests : EventLoopFree(r) /\ Read(r)
    \/ \E r \in ConcurrentRequests : EventLoopFree(r) /\ Write(r)
    \/ \E r \in ConcurrentRequests : EventLoopFree(r) /\ Assign(r)
    \/ \E r \in ConcurrentRequests : EventLoopFree(r) /\ Close(r)
    \/ \E r \in ConcurrentRequests : EventLoopFree(r) /\ Convert(r)
    \/ \E r \in ConcurrentRequests : EventLoopFree(r) /\ Except(r)
    \/ \E r \in ConcurrentRequests : EventLoopFree(r) /\ Finally(r)
    \/ \E r \in ConcurrentRequests : EventLoopFree(r) /\ Remove(r)
    \/ \E r \in ConcurrentRequests : EventLoopFree(r) /\ Return(r)

SpecEventLoop == InitConcurrent /\ [][NextEventLoop]_vars

----------------------------------------------------------------------------
(* C14 *)

\* the handler of r is past the upload read and has not finished
PastRead == {"write", "assign", "close", "convert", "except", "finally",
             "remove", "return"}

\* r is being handled and its staged file holds upload bytes, or its
\* conversion is running
InDataPhase(r) ==
    /\ pc[r] # "done"
    /\ \/ pc[r] = "convert"
       \/ \E p \in Paths : fs[p].exists /\ fs[p].owner = r /\ fs[p].data # ""

\* C14: on a single-threaded event loop the handler is parked only at the
\* awaited upload read, after its still empty temporary file was created; from
\* the write through the conversion to the removal no other request's handler
\* step interleaves, so at most one request at a time has upload bytes in its
\* staged file or its conversion running.
C14_OneRequestInDataPhase ==
    /\ [](/\ \A r1, r2 \in ConcurrentRequests :
                (InDataPhase(r1) /\ InDataPhase(r2)) => r1 = r2
          /\ \A r \in ConcurrentRequests :
                pc[r] = "read"
                    => /\ temp_file[r].created
                       /\ fs[temp_file[r].name].exists
                       /\ fs[temp_file[r].name].owner = r
                       /\ fs[temp_file[r].name].data = ""
          /\ Cardinality({r \in ConcurrentRequests : pc[r] \in PastRead}) <= 1)
    /\ [][\A r \in ConcurrentRequests :
            pc[r] \in PastRead
                => \A r2 \in ConcurrentRequests \ {r} :
                      pc'[r2] = pc[r2] \/ pc[r2] \in {"idle", "gate"}]_vars

\* one request converts its staged bytes while another is parked at its upload
\* read with an empty temporary file
C14_Witness ==
    \E r1, r2 \in ConcurrentRequests :
        /\ r1 # r2
        /\ pc[r1] = "convert"
        /\ fs[temp_file[r1].name].data = upload[r1]
        /\ pc[r2] = "read"
        /\ fs[temp_file[r2].name].data = ""

----------------------------------------------------------------------------
(* C15 *)

\* the header starts with "Bearer " and the token the gate takes from it is empty
EmptyBearerToken(h) == startswith(h, Bearer) /\ split(h, " ")[2] = <<>>

\* C15: an empty-string secret is treated like an absent one at start-up, so in
\* every serving state the secret is non-empty, and a request whose header is
\* "Bearer " followed by an empty token is never accepted by the gate.
C15_EmptySecretRefused ==
    /\ (environ = Some(<<>>) /\ phase # "import") => phase = "crashed"
    /\ phase = "serving" => (~API_TOKEN.none /\ API_TOKEN.val # <<>>)
    /\ \A r \in Requests :
          /\ Handling(r) => API_TOKEN.val # <<>>
          /\ (EmptyBearerToken(authorization[r]) /\ pc[r] \notin {"idle", "gate"})
                => /\ pc[r] = "done"
                   /\ trace[r] = <<Ok("gate")>>
                   /\ outcome[r] = JSONResponse("detail", "Invalid API token", 403)

\* start-up has run with API_TOKEN set to "": the process is down
C15_Witness ==
    /\ environ = Some(<<>>)
    /\ phase = "crashed"
    /\ \A r \in Requests : ~Handling(r)

\* a request with the bare header "Bearer " has been refused with 403
C15_EmptyTokenRefused ==
    \E r \in Requests :
        /\ authorization[r] = Bearer
        /\ pc[r] = "done"
        /\ outcome[r].status = 403

====
